---- MODULE Spec2Model ----
(***************************************************************************)
(* A model of dice_utilities.py: the percentile interpolator               *)
(* (find_percentile), the functor over dice lists (evaluate_dice_list),    *)
(* the joint distribution generator (generate_all_dice_combs) and the      *)
(* ordered combination generator (generate_all_ordered_lists).             *)
(*                                                                         *)
(* Floating point numbers are modelled exactly: a cumulative probability   *)
(* is an integer number of units, a chance is an integer weight over a     *)
(* common denominator, and an interpolated outcome is a fraction num/den.  *)
(* Python indices are kept 0-based; At(s, i) reads position i of a list.   *)
(***************************************************************************)
EXTENDS Integers, Sequences, FiniteSets, TLC

\* ------------------------------------------------------------------ bounds
\* keys of a CDF are drawn from 1..MaxKey
MaxKey == 6
\* cumulative values and percentiles are drawn from 0..MaxCum
MaxCum == 3

VARIABLES
    pc,           \* position of the running call
    ret,          \* the value the call returned
    cdf_dict,     \* find_percentile: argument
    percentile,   \* find_percentile: argument
    cdf_indices,  \* find_percentile: sorted keys
    cdf_values,   \* find_percentile: cumulative values in key order
    high,         \* find_percentile: search window
    low,
    mid,
    dice_list,    \* evaluate_dice_list, generate_all_dice_combs: argument
    all_combs,    \* generate_all_dice_combs: the running list of combinations
    die_idx,      \* generate_all_dice_combs: dice the for loop has processed
    values_list,  \* generate_all_ordered_lists: argument
    N,            \* generate_all_ordered_lists: argument of the outermost call
    reverse,      \* generate_all_ordered_lists: argument
    depth_N,      \* generate_all_ordered_lists: argument N of the innermost live call
    new_combs     \* generate_all_ordered_lists: what the last finished call returned

fpVars == <<cdf_dict, percentile, cdf_indices, cdf_values, high, low, mid>>
combVars == <<all_combs, die_idx>>
ordVars == <<values_list, N, reverse, depth_N, new_combs>>
vars == <<pc, ret, fpVars, dice_list, combVars, ordVars>>

\* a local that has not been assigned yet
Unset == -1

\* no value returned (yet)
NoValue == [num |-> 0, den |-> 0]

\* an exact outcome
Whole(k) == [num |-> k, den |-> 1]

\* s[i] of a Python list (0-based)
At(s, i) == s[i + 1]

\* ---------------------------------------------------------- find_percentile

RECURSIVE SortedKeys(_)
\* the keys of a dict in ascending order
SortedKeys(S) ==
    IF S = {} THEN <<>>
    ELSE LET m == CHOOSE x \in S : \A y \in S : x <= y
         IN  <<m>> \o SortedKeys(S \ {m})

\* sorted(cdf_dict.items())
sorted_dict_tuples(d) ==
    LET ks == SortedKeys(DOMAIN d)
    IN  [i \in 1..Len(ks) |-> <<ks[i], d[ks[i]]>>]

\* round((high + low) / 2): Python 3 rounds a half to the even neighbour
Midpoint(h, l) ==
    LET s == h + l
        q == s \div 2
    IN  IF s % 2 = 0 THEN q
        ELSE IF q % 2 = 0 THEN q ELSE q + 1

\* the first boundary test with a strict comparison
AboveMax(p, values) == p > values[Len(values)]

\* percentile >= cdf_values[-1]
AtOrAboveMax(p, values) == p >= values[Len(values)]

\* percentile <= cdf_values[0]
AtOrBelowMin(p, values) == p <= values[1]

\* cdf_values[mid] < percentile, the first half of the chained comparison
AboveMid(values, m, p) == At(values, m) < p

\* the loop condition with both comparisons non-strict
BracketedClosed(values, m, p) == At(values, m) <= p /\ p <= At(values, m + 1)

\* cdf_values[mid] < percentile <= cdf_values[mid + 1]
Bracketed(values, m, p) == AboveMid(values, m, p) /\ p <= At(values, m + 1)

\* the interpolated outcome, as a fraction
Interpolate(indices, values, m, p) ==
    LET anum == p - At(values, m)
        aden == At(values, m + 1) - At(values, m)
    IN  [num |-> At(indices, m) * aden + anum * (At(indices, m + 1) - At(indices, m)),
         den |-> aden]

NonDecreasing(values) ==
    \A i \in 1..Len(values) - 1 : values[i] <= values[i + 1]

NonIncreasing(values) ==
    \A i \in 1..Len(values) - 1 : values[i] >= values[i + 1]

\* the CDFs a die exposes: at_most() is non-decreasing, at_least() non-increasing
CDFDicts ==
    UNION { { d \in [S -> 0..MaxCum] :
                LET v == [i \in 1..Cardinality(S) |-> sorted_dict_tuples(d)[i][2]]
                IN  NonDecreasing(v) \/ NonIncreasing(v) }
            : S \in SUBSET (1..MaxKey) }

\* the variables of find_percentile while another function runs
FPIdle ==
    /\ cdf_dict = <<>>
    /\ percentile = 0
    /\ cdf_indices = <<>>
    /\ cdf_values = <<>>
    /\ high = Unset
    /\ low = Unset
    /\ mid = Unset

\* the variables of generate_all_dice_combs while another function runs
CombIdle == all_combs = <<>> /\ die_idx = 0

\* the variables of generate_all_ordered_lists while another function runs
OrdIdle ==
    /\ values_list = <<>>
    /\ N = 0
    /\ reverse = FALSE
    /\ depth_N = 0
    /\ new_combs = <<>>

FPInit ==
    /\ pc = "call"
    /\ ret = NoValue
    /\ cdf_dict \in CDFDicts
    /\ percentile \in 0..MaxCum
    /\ cdf_indices = <<>>
    /\ cdf_values = <<>>
    /\ high = Unset
    /\ low = Unset
    /\ mid = Unset
    /\ dice_list = <<>>
    /\ CombIdle
    /\ OrdIdle

\* lines 29-39: sort, the boundary policy, the first midpoint
FPEntry ==
    /\ pc = "call"
    /\ LET t == sorted_dict_tuples(cdf_dict)
           indices == [i \in 1..Len(t) |-> t[i][1]]
           values == [i \in 1..Len(t) |-> t[i][2]]
       IN  /\ cdf_indices' = indices
           /\ cdf_values' = values
           /\ IF Len(values) = 0
              THEN \* cdf_values[-1] of an empty list
                   /\ pc' = "IndexError"
                   /\ UNCHANGED <<ret, high, low, mid>>
              ELSE IF AtOrAboveMax(percentile, values)
              THEN /\ pc' = "return"
                   /\ ret' = Whole(indices[Len(indices)])
                   /\ UNCHANGED <<high, low, mid>>
              ELSE IF AtOrBelowMin(percentile, values)
              THEN /\ pc' = "return"
                   /\ ret' = Whole(indices[1])
                   /\ UNCHANGED <<high, low, mid>>
              ELSE /\ pc' = "while"
                   /\ high' = Len(values) - 1
                   /\ low' = 0
                   /\ mid' = Midpoint(Len(values) - 1, 0)
                   /\ UNCHANGED ret
    /\ UNCHANGED <<cdf_dict, percentile, dice_list, combVars, ordVars>>

\* line 40: the loop condition
FPTest ==
    /\ pc = "while"
    /\ pc' = IF AboveMid(cdf_values, mid, percentile) /\ mid + 1 > Len(cdf_values) - 1
             THEN "IndexError"
             ELSE IF Bracketed(cdf_values, mid, percentile) THEN "interp" ELSE "body"
    /\ UNCHANGED <<ret, fpVars, dice_list, combVars, ordVars>>

\* lines 41-45: the loop body
FPBody ==
    /\ pc = "body"
    /\ IF At(cdf_values, mid) > percentile
       THEN /\ high' = mid
            /\ low' = low
       ELSE /\ low' = mid
            /\ high' = high
    /\ mid' = Midpoint(high', low')
    /\ pc' = "while"
    /\ UNCHANGED <<ret, cdf_dict, percentile, cdf_indices, cdf_values>>
    /\ UNCHANGED <<dice_list, combVars, ordVars>>

\* lines 47-48: the interpolation
FPInterp ==
    /\ pc = "interp"
    /\ IF At(cdf_values, mid + 1) - At(cdf_values, mid) = 0
       THEN /\ pc' = "ZeroDivisionError"
            /\ ret' = ret
       ELSE /\ pc' = "return"
            /\ ret' = Interpolate(cdf_indices, cdf_values, mid, percentile)
    /\ UNCHANGED <<fpVars, dice_list, combVars, ordVars>>

FPNext == FPEntry \/ FPTest \/ FPBody \/ FPInterp

Spec == FPInit /\ [][FPNext]_vars

\* ------------------------------------------- find_percentile: the properties

\* the cumulative values strictly increase in key order
StrictlyIncreasing(values) ==
    \A i \in 1..Len(values) - 1 : values[i] < values[i + 1]

\* the argument's cumulative values in key order (cdf_values, before line 31 ran)
ArgValues ==
    LET t == sorted_dict_tuples(cdf_dict)
    IN  [i \in 1..Len(t) |-> t[i][2]]

\* calls on strictly increasing CDFs
FPInitStrict == FPInit /\ StrictlyIncreasing(ArgValues)

\* find_percentile on strictly increasing CDFs; a sequential call always takes
\* its next step
FairSpec == FPInitStrict /\ [][FPNext]_vars /\ WF_vars(FPNext)

\* the call returned exactly the key k
ReturnedKey(k) == pc = "return" /\ ret.den # 0 /\ ret.num = k * ret.den

\* the call returned from the boundary policy: the search locals were never assigned
ReturnedBeforeSearch == pc = "return" /\ high = Unset /\ low = Unset /\ mid = Unset

\* a non-decreasing CDF of at least two entries, and a percentile strictly between
\* its smallest and its largest cumulative value
InteriorQuery ==
    /\ Len(cdf_values) >= 2
    /\ NonDecreasing(cdf_values)
    /\ cdf_values[1] < percentile
    /\ percentile < cdf_values[Len(cdf_values)]

\* the search loop is running on such a query
Searching == pc \in {"while", "body", "interp"} /\ InteriorQuery

\* C1: on a non-decreasing CDF with at least two entries and a percentile strictly
\* between its smallest and largest cumulative value, every iteration of the
\* search loop strictly shrinks the [low, high] window (so the loop terminates).
C1_WindowShrinks ==
    [][(pc = "body" /\ InteriorQuery) => (high' - low' < high - low)]_vars

\* the percentile is the cumulative value of a key of a strictly increasing CDF
ExactMatchCall ==
    /\ pc = "call"
    /\ StrictlyIncreasing(ArgValues)
    /\ \E k \in DOMAIN cdf_dict : cdf_dict[k] = percentile

\* C2: when the percentile equals the cumulative value of a key k of a strictly
\* increasing CDF, find_percentile returns the key k itself.
C2_ExactMatchReturnsKey ==
    ExactMatchCall
        ~> (\E k \in DOMAIN cdf_dict : cdf_dict[k] = percentile /\ ReturnedKey(k))

\* C3 (as claimed): on a non-empty non-decreasing CDF, a percentile at or below the
\* smallest cumulative value returns the minimum key, a percentile at or above the
\* largest returns the maximum key, both before the search loop is entered.
C3_BoundaryPolicy ==
    (pc # "call" /\ Len(cdf_values) >= 1 /\ NonDecreasing(cdf_values)) =>
        /\ percentile <= cdf_values[1]
              => (ReturnedBeforeSearch /\ ret = Whole(cdf_indices[1]))
        /\ percentile >= cdf_values[Len(cdf_values)]
              => (ReturnedBeforeSearch /\ ret = Whole(cdf_indices[Len(cdf_indices)]))

\* C3 (amended): a percentile at or above the largest cumulative value returns the
\* maximum key; a percentile at or below the smallest cumulative value and strictly
\* below the largest returns the minimum key; both before the search loop is entered.
C3_BoundaryPolicyMaxFirst ==
    (pc # "call" /\ Len(cdf_values) >= 1 /\ NonDecreasing(cdf_values)) =>
        /\ (percentile <= cdf_values[1] /\ percentile < cdf_values[Len(cdf_values)])
              => (ReturnedBeforeSearch /\ ret = Whole(cdf_indices[1]))
        /\ percentile >= cdf_values[Len(cdf_values)]
              => (ReturnedBeforeSearch /\ ret = Whole(cdf_indices[Len(cdf_indices)]))

\* C3 witness: a flat CDF of several keys queried at its only cumulative value,
\* where both boundary tests apply, has returned
C3_Witness ==
    /\ pc = "return"
    /\ Len(cdf_values) >= 2
    /\ NonDecreasing(cdf_values)
    /\ percentile <= cdf_values[1]
    /\ percentile >= cdf_values[Len(cdf_values)]
    /\ ret = Whole(cdf_indices[Len(cdf_indices)])

\* C4: the interpolation never divides by zero: whenever the division of line 47 is
\* about to run, cdf_values[mid + 1] - cdf_values[mid] is non-zero, also on a CDF
\* with a plateau queried at the plateau's probability.
C4_NoZeroDivision ==
    /\ pc # "ZeroDivisionError"
    /\ pc = "interp" => At(cdf_values, mid + 1) - At(cdf_values, mid) # 0

\* C4 witness: the interpolation is reached on a CDF with a plateau, queried at the
\* plateau's probability
C4_Witness ==
    /\ pc = "interp"
    /\ \E i \in 1..Len(cdf_values) - 1 :
          cdf_values[i] = percentile /\ cdf_values[i + 1] = percentile

\* C10: during the search on a non-decreasing CDF, 0 <= mid and
\* mid + 1 <= len(cdf) - 1: mid never becomes the last index.
C10_MidInRange ==
    Searching => (0 <= mid /\ mid + 1 <= Len(cdf_values) - 1)
\* --------------------------------------------------------- evaluate_dice_list

\* the dice the leaves are drawn from
Dice == {"d1", "d2", "d3"}

\* nested values have at most MaxSize nodes (dice and lists)
MaxSize == 5

\* a die
Leaf(d) == [kind |-> "leaf", die |-> d]

\* a Python list
List(s) == [kind |-> "list", items |-> s]

\* isinstance(x, list)
IsList(x) == x.kind = "list"

RECURSIVE NestedOfSize(_), ItemsOfSize(_)
\* the dice and nested lists of dice with exactly s nodes
NestedOfSize(s) ==
    (IF s = 1 THEN {Leaf(d) : d \in Dice} ELSE {})
        \cup {List(items) : items \in ItemsOfSize(s - 1)}

\* the sequences of such values with s nodes in total
ItemsOfSize(s) ==
    IF s = 0 THEN {<<>>}
    ELSE UNION { {<<v>> \o rest : v \in NestedOfSize(k), rest \in ItemsOfSize(s - k)}
                 : k \in 1..s }

\* lambda_func(x): an arbitrary function, kept symbolic; two results are equal
\* exactly when equality of the arguments forces them to be
lambda_func(x) == [kind |-> "result", of |-> x]

\* the function applied to the argument as a whole, list or not
apply_to_whole(dl) == lambda_func(dl)

\* lines 60-65
evaluate_dice_list(dl) ==
    IF IsList(dl)
    THEN List([i \in 1..Len(dl.items) |-> lambda_func(dl.items[i])])
    ELSE lambda_func(dl)

EvalInit ==
    /\ pc = "call"
    /\ ret = NoValue
    /\ dice_list \in UNION {NestedOfSize(s) : s \in 1..MaxSize}
    /\ FPIdle
    /\ CombIdle
    /\ OrdIdle

\* the call of evaluate_dice_list
EvalCall ==
    /\ pc = "call"
    /\ ret' = evaluate_dice_list(dice_list)
    /\ pc' = "return"
    /\ UNCHANGED <<fpVars, dice_list, combVars, ordVars>>

SpecEval == EvalInit /\ [][EvalCall]_vars

RECURSIVE MapLeaves(_)
\* the structure of the same nesting shape with lambda_func applied to every leaf
MapLeaves(x) ==
    IF IsList(x)
    THEN List([i \in 1..Len(x.items) |-> MapLeaves(x.items[i])])
    ELSE lambda_func(x)

\* a list all of whose elements are dice
FlatList(x) == IsList(x) /\ \A i \in 1..Len(x.items) : ~IsList(x.items[i])

\* C7 (as claimed): the result has the nesting shape of the argument with every
\* leaf replaced by the function's result on it, to any depth.
C7_MapsLeaves == pc = "return" => ret = MapLeaves(dice_list)

\* C7 (amended): a single die gives the function's result on it; a list gives the
\* list of the function's results on its elements, where an element that is itself
\* a list is passed to the function whole; so the leaf-wise map holds for a single
\* die and for a flat list of dice.
C7_MapsElements ==
    pc = "return" =>
        /\ ~IsList(dice_list) => ret = lambda_func(dice_list)
        /\ IsList(dice_list) =>
              /\ IsList(ret)
              /\ Len(ret.items) = Len(dice_list.items)
              /\ \A i \in 1..Len(ret.items) :
                    /\ ret.items[i].kind = "result"
                    /\ ret.items[i].of = dice_list.items[i]
        /\ (~IsList(dice_list) \/ FlatList(dice_list)) => ret = MapLeaves(dice_list)

\* C7 witness: evaluate_dice_list(f, [d1, [d2, d3]]) has returned [f(d1), f([d2, d3])]
C7_Witness ==
    /\ pc = "return"
    /\ dice_list = List(<<Leaf("d1"), List(<<Leaf("d2"), Leaf("d3")>>)>>)
    /\ ret = List(<<lambda_func(Leaf("d1")),
                    lambda_func(List(<<Leaf("d2"), Leaf("d3")>>))>>)
\* ---------------------------------------------------- generate_all_dice_combs

\* at most MaxDice dice in dice_list
MaxDice == 2
\* the rolls of a die are drawn from 1..MaxRoll
MaxRoll == 2
\* a chance is a whole number of units out of Unit: Unit units is probability 1
Unit == 2

RECURSIVE SumOver(_, _)
\* the sum of f over the set S of its arguments
SumOver(f, S) ==
    IF S = {} THEN 0
    ELSE LET x == CHOOSE y \in S : TRUE
         IN  f[x] + SumOver(f, S \ {x})

RECURSIVE Power(_, _)
Power(b, e) == IF e = 0 THEN 1 ELSE b * Power(b, e - 1)

\* die.pdf: a dict from roll to chance; the chances of a die never exceed
\* probability 1 in total, and make a PMF when they sum to it
Pdfs ==
    UNION { { f \in [S -> 0..Unit] : SumOver(f, S) <= Unit } : S \in SUBSET (1..MaxRoll) }

\* each_dice.pdf.items(), in the order of the rolls
Items(pdf) ==
    LET ks == SortedKeys(DOMAIN pdf)
    IN  [i \in 1..Len(ks) |-> <<ks[i], pdf[ks[i]]>>]

\* the chances added instead of multiplied
SumChance(old_chance, chance) == old_chance + chance

\* line 202: new_chance
NewChance(old_chance, chance) == old_chance * chance

\* the new roll put in front of the old values
PrependRoll(old_list, roll) == <<roll>> \o old_list

\* line 204: new_list
NewList(old_list, roll) == Append(old_list, roll)

\* lines 197-206: every old combination extended by every (roll, chance) of the die,
\* in the order of the two nested loops
CrossWithDie(old_combs, pdf) ==
    LET items == Items(pdf)
        m == Len(items)
    IN  [j \in 1..(Len(old_combs) * m) |->
            LET old == old_combs[((j - 1) \div m) + 1]
                item == items[((j - 1) % m) + 1]
            IN  [chance |-> NewChance(old.chance, item[2]),
                 rolls |-> NewList(old.rolls, item[1])]]

CombInit ==
    /\ pc = "call"
    /\ ret = NoValue
    /\ dice_list \in UNION {[1..k -> Pdfs] : k \in 0..MaxDice}
    /\ all_combs = <<>>
    /\ die_idx = 0
    /\ FPIdle
    /\ OrdIdle

\* line 190: one outcome, the empty list, with probability 1
CombEntry ==
    /\ pc = "call"
    /\ all_combs' = <<[chance |-> 1, rolls |-> <<>>]>>
    /\ pc' = "for"
    /\ UNCHANGED <<ret, fpVars, dice_list, die_idx, ordVars>>

\* lines 192-206: one iteration of the loop over the dice
CombDie ==
    /\ pc = "for"
    /\ die_idx < Len(dice_list)
    /\ all_combs' = CrossWithDie(all_combs, dice_list[die_idx + 1])
    /\ die_idx' = die_idx + 1
    /\ UNCHANGED <<pc, ret, fpVars, dice_list, ordVars>>

\* line 207
CombReturn ==
    /\ pc = "for"
    /\ die_idx = Len(dice_list)
    /\ ret' = all_combs
    /\ pc' = "return"
    /\ UNCHANGED <<fpVars, dice_list, combVars, ordVars>>

CombNext == CombEntry \/ CombDie \/ CombReturn

SpecCombs == CombInit /\ [][CombNext]_vars

\* the number of outcomes of each of the first k dice, multiplied
RECURSIVE OutcomeProduct(_)
OutcomeProduct(k) ==
    IF k = 0 THEN 1 ELSE Cardinality(DOMAIN dice_list[k]) * OutcomeProduct(k - 1)

\* the chances of the rolls chosen from the first k dice, multiplied
RECURSIVE ChanceProduct(_, _)
ChanceProduct(rolls, k) ==
    IF k = 0 THEN 1 ELSE dice_list[k][rolls[k]] * ChanceProduct(rolls, k - 1)

\* the Cartesian product of the outcome sets of the dice
CartesianProduct ==
    { r \in [1..Len(dice_list) -> 1..MaxRoll] :
        \A i \in 1..Len(dice_list) : r[i] \in DOMAIN dice_list[i] }

\* the chances of a list of combinations, added
CombsTotal(combs) == SumOver([i \in 1..Len(combs) |-> combs[i].chance], 1..Len(combs))

\* every die of dice_list has a PMF: its chances sum to probability 1
AllPMFs == \A i \in 1..Len(dice_list) : SumOver(dice_list[i], DOMAIN dice_list[i]) = Unit

\* C5: generate_all_dice_combs returns exactly one entry for each element of the
\* Cartesian product of the dice's outcome sets, c1 x ... x ck entries in all; every
\* outcome-list has length k with outcome-list[i] an outcome of die i, and its
\* probability is the product of the chances of the chosen outcomes.
C5_CartesianProduct ==
    pc = "return" =>
        /\ Len(ret) = OutcomeProduct(Len(dice_list))
        /\ {ret[j].rolls : j \in 1..Len(ret)} = CartesianProduct
        /\ \A i, j \in 1..Len(ret) : ret[i].rolls = ret[j].rolls => i = j
        /\ \A j \in 1..Len(ret) :
              /\ Len(ret[j].rolls) = Len(dice_list)
              /\ \A i \in 1..Len(dice_list) : ret[j].rolls[i] \in DOMAIN dice_list[i]
              /\ ret[j].chance = ChanceProduct(ret[j].rolls, Len(dice_list))

\* C5 witness: two dice of two outcomes each, the first with unequal chances,
\* returned their four combinations
C5_Witness ==
    /\ pc = "return"
    /\ Len(dice_list) = 2
    /\ DOMAIN dice_list[1] = {1, 2}
    /\ DOMAIN dice_list[2] = {1, 2}
    /\ dice_list[1][1] # dice_list[1][2]
    /\ Len(ret) = 4

\* C6: when every die's PMF sums to 1, the probabilities of all_combs sum to 1 before
\* the first die, after each die, and in the returned list (a combination of die_idx
\* dice holds a numerator over Unit^die_idx).
C6_SumsToOne ==
    (pc \in {"for", "return"} /\ AllPMFs) =>
        /\ CombsTotal(all_combs) = Power(Unit, die_idx)
        /\ pc = "return" => CombsTotal(ret) = Power(Unit, Len(dice_list))

\* C6 witness: the loop is between two dice that have PMFs over two outcomes each
C6_Witness ==
    /\ pc = "for"
    /\ AllPMFs
    /\ Len(dice_list) = 2
    /\ die_idx = 1
    /\ Len(all_combs) = 2
    /\ \A j \in 1..2 : all_combs[j].chance > 0
    /\ Cardinality(DOMAIN dice_list[2]) = 2
\* ------------------------------------------------- generate_all_ordered_lists

\* values_list has at most MaxLen values
MaxLen == 3
\* the values are drawn from 1..MaxValue
MaxValue == 3
\* N is drawn from 0..MaxN
MaxN == 3

\* the condition of line 232 with strict comparisons
KeepsStrict(value, last, rev) == (value > last /\ ~rev) \/ (value < last /\ rev)

\* the condition of line 232 dropped
KeepsAll(value, last, rev) == TRUE

\* line 232: the combination stays sorted when value is appended
Keeps(value, last, rev) == (value >= last /\ ~rev) \/ (value <= last /\ rev)

\* line 222: one singleton list per position of values_list
Singletons(values) == [i \in 1..Len(values) |-> <<values[i]>>]

\* lines 230-233: the extensions of one combination, in the order of values_list
ExtendComb(comb, values, rev) ==
    LET kept == SelectSeq(values, LAMBDA v : Keeps(v, comb[Len(comb)], rev))
    IN  [i \in 1..Len(kept) |-> Append(comb, kept[i])]

RECURSIVE ExtendAll(_, _, _)
\* lines 224-234: the extensions of every old combination, in order
ExtendAll(old_combs, values, rev) ==
    IF old_combs = <<>> THEN <<>>
    ELSE ExtendComb(Head(old_combs), values, rev)
             \o ExtendAll(Tail(old_combs), values, rev)

\* the sorted lists of at most MaxLen values, duplicates included
SortedLists ==
    UNION { { v \in [1..k -> 1..MaxValue] : NonDecreasing(v) } : k \in 0..MaxLen }

OrdInit ==
    /\ pc = "call"
    /\ ret = NoValue
    /\ values_list \in SortedLists
    /\ N \in 0..MaxN
    /\ reverse \in BOOLEAN
    /\ depth_N = N
    /\ new_combs = <<>>
    /\ dice_list = <<>>
    /\ FPIdle
    /\ CombIdle

\* line 226: N is not 1, the function calls itself with N - 1; below 1 the
\* recursion never meets its stop case and Python ends it with a RecursionError
OrdRecurse ==
    /\ pc = "call"
    /\ depth_N # 1
    /\ IF depth_N < 1
       THEN pc' = "RecursionError" /\ depth_N' = depth_N
       ELSE pc' = "call" /\ depth_N' = depth_N - 1
    /\ UNCHANGED <<ret, fpVars, dice_list, combVars, values_list, N, reverse, new_combs>>

\* lines 220-222: the recursion stop case
OrdBase ==
    /\ pc = "call"
    /\ depth_N = 1
    /\ new_combs' = Singletons(values_list)
    /\ pc' = "returned"
    /\ UNCHANGED <<ret, fpVars, dice_list, combVars, values_list, N, reverse, depth_N>>

\* lines 224-234 in the caller of the call that just returned
OrdExtend ==
    /\ pc = "returned"
    /\ depth_N < N
    /\ new_combs' = ExtendAll(new_combs, values_list, reverse)
    /\ depth_N' = depth_N + 1
    /\ UNCHANGED <<pc, ret, fpVars, dice_list, combVars, values_list, N, reverse>>

\* the outermost call returns
OrdReturn ==
    /\ pc = "returned"
    /\ depth_N = N
    /\ ret' = new_combs
    /\ pc' = "return"
    /\ UNCHANGED <<fpVars, dice_list, combVars, ordVars>>

OrdNext == OrdRecurse \/ OrdBase \/ OrdExtend \/ OrdReturn

SpecOrdered == OrdInit /\ [][OrdNext]_vars

\* a sequence monotonic in the requested direction
Monotonic(comb, rev) ==
    \A i \in 1..Len(comb) - 1 :
        IF rev THEN comb[i] >= comb[i + 1] ELSE comb[i] <= comb[i + 1]

\* the values of values_list
ValueSet == {values_list[i] : i \in 1..Len(values_list)}

\* every length-N sequence over the values that is monotonic in the direction
MonotonicLists == { c \in [1..N -> ValueSet] : Monotonic(c, reverse) }

RECURSIVE Binomial(_, _)
\* the binomial coefficient C(a, b)
Binomial(a, b) ==
    IF b = 0 THEN 1
    ELSE IF a < b THEN 0
    ELSE Binomial(a - 1, b - 1) + Binomial(a - 1, b)

\* the outermost call returned and N >= 1
OrdReturned == pc = "return" /\ N >= 1

\* C8: for a sorted list of distinct values and N >= 1, the result holds exactly the
\* length-N sequences over the values that are monotonic in the requested direction,
\* each once; ([1,2,3], 2) gives [[1,1],[1,2],[1,3],[2,2],[2,3],[3,3]] ascending and
\* [[1,1],[2,1],[2,2],[3,1],[3,2],[3,3]] descending, in that order.
C8_ExactlyMonotonic ==
    (OrdReturned /\ StrictlyIncreasing(values_list)) =>
        /\ \A j \in 1..Len(ret) : Len(ret[j]) = N /\ Monotonic(ret[j], reverse)
        /\ {ret[j] : j \in 1..Len(ret)} = MonotonicLists
        /\ \A i, j \in 1..Len(ret) : ret[i] = ret[j] => i = j
        /\ (values_list = <<1, 2, 3>> /\ N = 2 /\ ~reverse) =>
              ret = << <<1, 1>>, <<1, 2>>, <<1, 3>>, <<2, 2>>, <<2, 3>>, <<3, 3>> >>
        /\ (values_list = <<1, 2, 3>> /\ N = 2 /\ reverse) =>
              ret = << <<1, 1>>, <<2, 1>>, <<2, 2>>, <<3, 1>>, <<3, 2>>, <<3, 3>> >>

\* C8 witness: generate_all_ordered_lists([1,2,3], 2, reverse=True) has returned
C8_Witness ==
    /\ pc = "return"
    /\ values_list = <<1, 2, 3>>
    /\ N = 2
    /\ reverse
    /\ Len(ret) = 6

\* C9 (as claimed): for every sorted value sequence, duplicates included, and every
\* N >= 1, at most C(|values| + N - 1, N) sequences are returned.
C9_AtMostMultisetCount ==
    OrdReturned => Len(ret) <= Binomial(Len(values_list) + N - 1, N)

\* C9 (amended): for every sorted sequence of distinct values and every N >= 1, at
\* most C(|values| + N - 1, N) sequences are returned; with duplicate values the
\* count can exceed that, and is at most |values|^N.
C9_AtMostMultisetCountDistinct ==
    OrdReturned =>
        /\ StrictlyIncreasing(values_list)
              => Len(ret) <= Binomial(Len(values_list) + N - 1, N)
        /\ Len(ret) <= Power(Len(values_list), N)

\* C9 witness: several distinct values and N >= 2 returned as many sequences as the
\* multiset combination count
C9_Witness ==
    /\ OrdReturned
    /\ N >= 2
    /\ Len(values_list) >= 2
    /\ StrictlyIncreasing(values_list)
    /\ Len(ret) = Binomial(Len(values_list) + N - 1, N)
====
